---- MODULE Spec2Model ----
(***************************************************************************)
(* gordf: RDF/XML loader.                                                  *)
(*   rdfloader/parser/parser.go   - Parser: concurrent triple extraction   *)
(*   rdfloader/xmlreader (reader) - XMLReader: tokenizer and tree builder  *)
(*                                                                         *)
(* Strings that the program builds by concatenation or formatting are      *)
(* sequences of string pieces (Str(s) is the one-piece string s, \o is     *)
(* concatenation); strings it only compares are plain strings.             *)
(***************************************************************************)
EXTENDS Integers, Sequences, FiniteSets, TLC

(***************************************************************************)
(* Bounds of the model.                                                    *)
(***************************************************************************)
\* number of children of the root block in the documents that are parsed
MaxRootChildren == 2
\* number of tokens (tags, texts, prologs) of the streams that are read
MaxTokens == 4

(***************************************************************************)
(* Values.                                                                 *)
(***************************************************************************)
Nil == "nil"
ErrUndefinedSchema == "undefined schema name"
ErrSchemaURI == "schema URI doesn't confirm to URL rules"
ErrOpen == "open: no such file"
ErrRead == "read: malformed document"

RDFNS == "http://www.w3.org/1999/02/22-rdf-syntax-ns#"
EXNS == "http://ex.org/"

IRI == "IRI"
BLANK == "BLANK"
LITERAL == "LITERAL"

Str(s) == <<s>>

Node(t, id) == [NodeType |-> t, ID |-> id]
NoNode == Node("none", <<>>)

\* uri.URIRef: a base and a fragment; the zero value has neither.
ZeroURI == [base |-> "", fragment |-> ""]
InvalidURIs == {"%zz"}
NewURIRef(s) ==
    IF s \in InvalidURIs
    THEN [uri |-> ZeroURI, err |-> "invalid uri"]
    ELSE [uri |-> [base |-> s, fragment |-> ""], err |-> Nil]
AddFragment(u, name) == [base |-> u.base, fragment |-> name]
URIString(u) == <<u.base, u.fragment>>

rdfNS == NewURIRef(RDFNS).uri

\* Node.String and Triple.Hash ("{%v; %v; %v}")
NodeString(n) == <<"(", n.NodeType, ", ">> \o n.ID \o <<")">>
Hash(triple) ==
    <<"{">> \o NodeString(triple.Subject) \o <<"; ">>
        \o NodeString(triple.Predicate) \o <<"; ">>
        \o NodeString(triple.Object) \o <<"}">>

Triple(s, p, o) == [Subject |-> s, Predicate |-> p, Object |-> o]

(***************************************************************************)
(* Block trees (what XMLReader.Read returns).                              *)
(***************************************************************************)
Attribute(schemaName, name, value) ==
    [SchemaName |-> schemaName, Name |-> name, Value |-> value]
Tag(schemaName, name, attrs) ==
    [SchemaName |-> schemaName, Name |-> name, Attrs |-> attrs]
Block(tag, value, children) ==
    [OpeningTag |-> tag, Value |-> value, Children |-> children]

RECURSIVE BlockAt(_, _)
BlockAt(b, path) ==
    IF path = <<>> THEN b ELSE BlockAt(b.Children[Head(path)], Tail(path))

AttrAbout(v) == Attribute("rdf", "about", v)
AttrNodeID(v) == Attribute("rdf", "nodeID", v)
AttrResource(v) == Attribute("rdf", "resource", v)

\* <ex:name>v</ex:name>
LeafName(v) == Block(Tag("ex", "name", <<>>), v, <<>>)

\* <ex:Thing rdf:about="s1"><ex:name>Bob</ex:name><ex:ref rdf:resource="r1"/></ex:Thing>
S1 == Block(Tag("ex", "Thing", <<AttrAbout("s1")>>), "",
            <<LeafName("Bob"), Block(Tag("ex", "ref", <<AttrResource("r1")>>), "", <<>>)>>)
\* <ex:Thing><ex:name>Bob</ex:name></ex:Thing>
S2 == Block(Tag("ex", "Thing", <<>>), "", <<LeafName("Bob")>>)
\* <foo:Thing rdf:about="s3"><ex:name>Al</ex:name></foo:Thing>, foo undeclared
S3 == Block(Tag("foo", "Thing", <<AttrAbout("s3")>>), "", <<LeafName("Al")>>)
\* <ex:Thing rdf:about="s4"><ex:knows><ex:Person><ex:name>Al</ex:name></ex:Person></ex:knows></ex:Thing>
S4 == Block(Tag("ex", "Thing", <<AttrAbout("s4")>>), "",
            <<Block(Tag("ex", "knows", <<>>), "",
                    <<Block(Tag("ex", "Person", <<>>), "", <<LeafName("Al")>>)>>)>>)
\* <ex:Thing foo:x="1" rdf:about="s5"><ex:ref id="i" rdf:resource="r5">v5</ex:ref></ex:Thing>
S5 == Block(Tag("ex", "Thing", <<Attribute("foo", "x", "1"), AttrAbout("s5")>>), "",
            <<Block(Tag("ex", "ref", <<Attribute("", "id", "i"), AttrResource("r5")>>),
                    "v5", <<>>)>>)
\* <ex:Thing rdf:about="s6"><ex:knows><foo:P rdf:nodeID="n1"><ex:name>Al</ex:name></foo:P>
\*    <ex:Q rdf:nodeID="n1"/></ex:knows></ex:Thing>
S6 == Block(Tag("ex", "Thing", <<AttrAbout("s6")>>), "",
            <<Block(Tag("ex", "knows", <<>>), "",
                    <<Block(Tag("foo", "P", <<AttrNodeID("n1")>>), "", <<LeafName("Al")>>),
                      Block(Tag("ex", "Q", <<AttrNodeID("n1")>>), "", <<>>)>>)>>)
\* <foo:Empty rdf:about="s7"/>
S7 == Block(Tag("foo", "Empty", <<AttrAbout("s7")>>), "", <<>>)

Subjects == {S1, S2, S3, S4, S5, S6, S7}
FlatSubjects == {S2, S3}

\* <rdf:RDF xmlns:rdf="...rdf-syntax-ns#" xmlns:ex="http://ex.org/" xmlns="http://d.org/">
RootAttrs ==
    <<Attribute("xmlns", "rdf", RDFNS), Attribute("xmlns", "ex", EXNS),
      Attribute("", "xmlns", "http://d.org/")>>
\* the same with xmlns:bad="%zz"
BadRootAttrs == RootAttrs \o <<Attribute("xmlns", "bad", "%zz")>>

SeqsUpTo(S, n) == UNION {[1..m -> S] : m \in 0..n}

\* the documents: one subject of any shape, S1 with a second subject, or up to
\* MaxRootChildren subjects with one leaf predicate
Docs ==
    {Block(Tag("rdf", "RDF", RootAttrs), "", <<c>>) : c \in Subjects}
    \cup {Block(Tag("rdf", "RDF", RootAttrs), "", cs) :
            cs \in {<<S1, S1>>, <<S1, S2>>, <<S1, S3>>, <<S3, S1>>, <<S1, S7>>}}
    \cup {Block(Tag("rdf", "RDF", RootAttrs), "", cs) :
            cs \in SeqsUpTo(FlatSubjects, MaxRootChildren)}
    \cup {Block(Tag("rdf", "RDF", BadRootAttrs), "", <<S1>>)}

\* what Parse gets from the file path: no file, a document Read rejects, or a tree
Inputs ==
    {[openErr |-> ErrOpen, readErr |-> Nil, rootBlock |-> Block(Tag("", "", <<>>), "", <<>>)],
     [openErr |-> Nil, readErr |-> ErrRead, rootBlock |-> Block(Tag("", "", <<>>), "", <<>>)]}
    \cup {[openErr |-> Nil, readErr |-> Nil, rootBlock |-> d] : d \in Docs}

(***************************************************************************)
(* Namespace and node resolution (pure parts).                             *)
(***************************************************************************)
\* New(): schemaDefinition: map[string]uri.URIRef{"": uri.URIRef{}}
NewSchemaDefinition == [p \in {""} |-> ZeroURI]

MapPut(m, key, v) == [x \in DOMAIN m \cup {key} |-> IF x = key THEN v ELSE m[x]]

RECURSIVE parseHeaderAttrs(_, _, _)
parseHeaderAttrs(attrs, i, namespaceURI) ==
    IF i > Len(attrs) THEN [ns |-> namespaceURI, err |-> Nil]
    ELSE IF attrs[i].SchemaName = "xmlns"
    THEN LET r == NewURIRef(attrs[i].Value)
         IN IF r.err # Nil
            THEN [ns |-> namespaceURI, err |-> ErrSchemaURI]
            ELSE parseHeaderAttrs(attrs, i + 1, MapPut(namespaceURI, attrs[i].Name, r.uri))
    ELSE parseHeaderAttrs(attrs, i + 1, namespaceURI)

parseHeaderBlock(rootBlock) ==
    parseHeaderAttrs(rootBlock.OpeningTag.Attrs, 1, [p \in {} |-> ZeroURI])

uriFromPair(sd, schemaName, name) ==
    IF schemaName \notin DOMAIN sd
    THEN [uri |-> ZeroURI, err |-> ErrUndefinedSchema]
    ELSE [uri |-> AddFragment(sd[schemaName], name), err |-> Nil]

\* the loop of getRDFAttributeIndex from attribute i (indices are Go's: from 0,
\* -1 for "not found"); the error of uriFromPair stays in the loop's own err
RECURSIVE rdfAttributeScan(_, _, _, _)
rdfAttributeScan(sd, attrs, attrName, i) ==
    IF i >= Len(attrs) THEN -1
    ELSE LET r == uriFromPair(sd, attrs[i + 1].SchemaName, attrs[i + 1].Name)
         IN IF r.err # Nil THEN -1
            ELSE IF r.uri = AddFragment(rdfNS, attrName) THEN i
            ELSE rdfAttributeScan(sd, attrs, attrName, i + 1)

getRDFAttributeIndex(sd, tag, attrName) ==
    [index |-> rdfAttributeScan(sd, tag.Attrs, attrName, 0), err |-> Nil]

\* BlankNodeGetter.GetFromId
GetFromId(id) == Node(BLANK, Str(id))
\* the node BlankNodeGetter.Get returns once lastid has been incremented to id
BlankOf(id) == Node(BLANK, Str(ToString(id)))

\* nodeFromTag up to the call of blankNodeGetter.Get():  fresh = TRUE when the
\* node is to be minted by Get
nodeFromTag(sd, openingTag) ==
    LET a == getRDFAttributeIndex(sd, openingTag, "about")
        n == getRDFAttributeIndex(sd, openingTag, "nodeID")
    IN  IF a.err # Nil THEN [node |-> NoNode, err |-> a.err, fresh |-> FALSE]
        ELSE IF a.index = -1
        THEN IF n.err # Nil THEN [node |-> NoNode, err |-> n.err, fresh |-> FALSE]
             ELSE IF n.index = -1 THEN [node |-> NoNode, err |-> Nil, fresh |-> TRUE]
             ELSE [node |-> GetFromId(openingTag.Attrs[n.index + 1].Value),
                   err |-> Nil, fresh |-> FALSE]
        ELSE [node |-> Node(IRI, Str(openingTag.Attrs[a.index + 1].Value)),
              err |-> Nil, fresh |-> FALSE]


(***************************************************************************)
(* State of one Parser and of one call of Parse on it.                     *)
(***************************************************************************)
VARIABLES
    input,              \* what the file path of Parse leads to
    main,               \* the goroutine running Parse: pc, loop index, locals, result
    units,              \* the goroutines running parseBlock, by the path of their block
    errSlot,            \* the err variable of each iteration of Parse's loop (*errp)
    Triples,            \* parser.Triples: hash -> triple
    writeLock,          \* parser.writeLock: "free" or its holder
    schemaDefinition,   \* parser.schemaDefinition: prefix -> URIRef
    lastid,             \* parser.blankNodeGetter
    wg,                 \* parser.wg: the counter of the WaitGroup
    nodeOf,             \* history: the node nodeFromTag returned for the tag at a path
    fileReader,         \* xmlReader.fileReader: the runes of the stream and how many are consumed
    frames,             \* the calls of readBlock that have not returned
    rootRead            \* what XMLReader.Read returned, and the history of the blocks completed

vars == <<input, main, units, errSlot, Triples, writeLock, schemaDefinition,
          lastid, wg, nodeOf, fileReader, frames, rootRead>>

Free == "free"
rootBlock == input.rootBlock

\* New()
New ==
    /\ main = [pc |-> "l237", k |-> 1, childNode |-> NoNode, tmp |-> -1,
               err |-> Nil, ret |-> "none"]
    /\ units = [u \in {} |-> 0]
    /\ errSlot = [s \in {} |-> Nil]
    /\ Triples = [h \in {} |-> 0]
    /\ writeLock = Free
    /\ schemaDefinition = NewSchemaDefinition
    /\ lastid = -1
    /\ wg = 0
    /\ nodeOf = [p \in {} |-> NoNode]

\* a parser and the document its Parse is called on; the reading of the
\* document is the other specification's
Init ==
    /\ input \in Inputs
    /\ New
    /\ fileReader = [inp |-> <<>>, pos |-> 0]
    /\ frames = <<>>
    /\ rootRead = [block |-> Block(Tag(<<>>, <<>>, <<>>), <<>>, <<>>), err |-> "not read",
                   log |-> <<>>, prologs |-> <<>>]

Returned == main.pc = "done"

(***************************************************************************)
(* Parse (the calling goroutine).                                          *)
(***************************************************************************)
\* after the body of one iteration of the loop over rootBlock.Children
MainNext(k) ==
    IF k + 1 <= Len(rootBlock.Children) THEN "l256" ELSE "l266"

\* lines 237-245: open the file and read the block tree
ParseRead ==
    /\ main.pc = "l237"
    /\ main' = IF input.openErr # Nil THEN [main EXCEPT !.pc = "done", !.ret = input.openErr]
               ELSE IF input.readErr # Nil
               THEN [main EXCEPT !.pc = "done", !.ret = input.readErr]
               ELSE [main EXCEPT !.pc = "l248"]
    /\ UNCHANGED <<fileReader, frames, rootRead>>
    /\ UNCHANGED <<input, units, errSlot, Triples, writeLock, schemaDefinition,
                   lastid, wg, nodeOf>>

\* lines 248-252: the namespace table of the root block replaces the parser's
ParseHeader ==
    /\ main.pc = "l248"
    /\ LET r == parseHeaderBlock(rootBlock)
       IN IF r.err # Nil
          THEN /\ main' = [main EXCEPT !.pc = "done", !.ret = r.err]
               /\ UNCHANGED schemaDefinition
          ELSE /\ schemaDefinition' = r.ns
               /\ main' = [main EXCEPT !.pc = MainNext(0), !.k = 1]
    /\ UNCHANGED <<fileReader, frames, rootRead>>
    /\ UNCHANGED <<input, units, errSlot, Triples, writeLock, lastid, wg, nodeOf>>

\* line 256: parser.wg.Add(1)
ParseAdd ==
    /\ main.pc = "l256"
    /\ wg' = wg + 1
    /\ main' = [main EXCEPT !.pc = "l257"]
    /\ UNCHANGED <<fileReader, frames, rootRead>>
    /\ UNCHANGED <<input, units, errSlot, Triples, writeLock, schemaDefinition,
                   lastid, nodeOf>>

\* lines 257-260: childNode, err := parser.nodeFromTag(child.OpeningTag); err is
\* the variable of this iteration.  When the node is a fresh blank node, this is
\* nodeFromTag up to the read of lastid in Get.
ParseNode ==
    /\ main.pc = "l257"
    /\ LET r == nodeFromTag(schemaDefinition, rootBlock.Children[main.k].OpeningTag)
       IN IF r.err # Nil
          THEN /\ main' = [main EXCEPT !.pc = "done", !.ret = r.err]
               /\ UNCHANGED <<errSlot, nodeOf>>
          ELSE IF r.fresh
          THEN /\ main' = [main EXCEPT !.pc = "l257get", !.tmp = lastid]
               /\ UNCHANGED <<errSlot, nodeOf>>
          ELSE /\ main' = [main EXCEPT !.pc = "l261", !.childNode = r.node]
               /\ errSlot' = MapPut(errSlot, main.k, r.err)
               /\ nodeOf' = MapPut(nodeOf, <<main.k>>, r.node)
    /\ UNCHANGED <<fileReader, frames, rootRead>>
    /\ UNCHANGED <<input, units, Triples, writeLock, schemaDefinition, lastid, wg>>

\* Get: the write of lastid and the return of the new blank node
ParseNodeGet ==
    /\ main.pc = "l257get"
    /\ lastid' = main.tmp + 1
    /\ main' = [main EXCEPT !.pc = "l261", !.childNode = BlankOf(main.tmp + 1)]
    /\ errSlot' = MapPut(errSlot, main.k, Nil)
    /\ nodeOf' = MapPut(nodeOf, <<main.k>>, BlankOf(main.tmp + 1))
    /\ UNCHANGED <<fileReader, frames, rootRead>>
    /\ UNCHANGED <<input, units, Triples, writeLock, schemaDefinition, wg>>

\* a goroutine about to run parseBlock(block at path, node, errp); erred is
\* history: the unit got an error from one of its calls; typeResolved counts
\* its calls of uriFromPair on the tag of its block (line 174), typeAttempts
\* its calls of appendTriple with the rdf:type triple (line 180), emitted all
\* its calls of appendTriple
NewUnit(path, node, errp) ==
    [pc |-> IF Len(BlockAt(rootBlock, path).Children) = 0 THEN "l232" ELSE "l169",
     node |-> node, errp |-> errp, i |-> 1, j |-> 1,
     predicateNode |-> NoNode, objectNode |-> NoNode, tmp |-> -1,
     openingTagUri |-> ZeroURI, objectString |-> "", erred |-> FALSE,
     typeResolved |-> 0, typeAttempts |-> 0, emitted |-> 0]

\* line 261: go parser.parseBlock(child, childNode, &err)
ParseGo ==
    /\ main.pc = "l261"
    /\ units' = MapPut(units, <<main.k>>, NewUnit(<<main.k>>, main.childNode, main.k))
    /\ main' = [main EXCEPT !.pc = "l262"]
    /\ UNCHANGED <<fileReader, frames, rootRead>>
    /\ UNCHANGED <<input, errSlot, Triples, writeLock, schemaDefinition, lastid,
                   wg, nodeOf>>

\* line 262: if err != nil; main.err is the value this read of err loaded
ParseCheck ==
    /\ main.pc = "l262"
    /\ main' = IF errSlot[main.k] # Nil
               THEN [main EXCEPT !.pc = "l263", !.err = errSlot[main.k]]
               ELSE [main EXCEPT !.pc = MainNext(main.k), !.k = main.k + 1]
    /\ UNCHANGED <<fileReader, frames, rootRead>>
    /\ UNCHANGED <<input, units, errSlot, Triples, writeLock, schemaDefinition,
                   lastid, wg, nodeOf>>

\* line 263: return err. The read races with the writes of the units: the
\* value returned is the one line 262 loaded or the one err holds now
ParseReturnErr ==
    /\ main.pc = "l263"
    /\ \E v \in {main.err, errSlot[main.k]} :
          main' = [main EXCEPT !.pc = "done", !.ret = v]
    /\ UNCHANGED <<fileReader, frames, rootRead>>
    /\ UNCHANGED <<input, units, errSlot, Triples, writeLock, schemaDefinition,
                   lastid, wg, nodeOf>>

\* lines 266-267: parser.wg.Wait(); return nil
ParseWait ==
    /\ main.pc = "l266"
    /\ wg = 0
    /\ main' = [main EXCEPT !.pc = "done", !.ret = Nil]
    /\ UNCHANGED <<fileReader, frames, rootRead>>
    /\ UNCHANGED <<input, units, errSlot, Triples, writeLock, schemaDefinition,
                   lastid, wg, nodeOf>>


(***************************************************************************)
(* parseBlock (one goroutine per unit u; u is the path of currBlock).      *)
(* Every access to *errp, to lastid, to the lock and to the counter is a   *)
(* step of its own: none of them but the lock is synchronised.             *)
(***************************************************************************)
currBlock(u) == BlockAt(rootBlock, u)
predicateBlock(u) == currBlock(u).Children[units[u].i]
objectBlock(u) == predicateBlock(u).Children[units[u].j]

SetUnit(u, rec) == units' = [units EXCEPT ![u] = rec]

\* the next iteration of the loop over currBlock.Children, or line 232 after it
NextPredicate(u, rec) ==
    IF rec.i + 1 <= Len(currBlock(u).Children)
    THEN [rec EXCEPT !.pc = "l169", !.i = rec.i + 1, !.j = 1]
    ELSE [rec EXCEPT !.pc = "l232"]

\* the next iteration of the loop over predicateBlock.Children, or the next predicate
NextObject(u, rec) ==
    IF rec.j + 1 <= Len(predicateBlock(u).Children)
    THEN [rec EXCEPT !.pc = "l214", !.j = rec.j + 1]
    ELSE NextPredicate(u, rec)

\* if *errp != nil { return }: the unit returns without reaching wg.Done()
CheckErr(u, next) ==
    IF errSlot[units[u].errp] # Nil
    THEN [units[u] EXCEPT !.pc = "returned"]
    ELSE next

\* appendTriple with a key that is not made of the triple's values alone
appendTripleByCall(triples, u, triple) ==
    MapPut(triples, Hash(triple) \o <<ToString(Cardinality(DOMAIN triples))>>, triple)

\* parser.Triples[triple.Hash()] = triple
appendTriple(triples, u, triple) == MapPut(triples, Hash(triple), triple)

\* line 169: predicateNode, newErr := parser.nodeFromTag(predicateBlock.OpeningTag)
PredicateNode(u) ==
    /\ units[u].pc = "l169"
    /\ LET r == nodeFromTag(schemaDefinition, predicateBlock(u).OpeningTag)
       IN IF r.fresh
          THEN /\ SetUnit(u, [units[u] EXCEPT !.pc = "l169get", !.tmp = lastid])
               /\ UNCHANGED nodeOf
          ELSE /\ SetUnit(u, [units[u] EXCEPT !.pc = "l170", !.predicateNode = r.node])
               /\ nodeOf' = MapPut(nodeOf, u \o <<units[u].i>>, r.node)
    /\ UNCHANGED <<fileReader, frames, rootRead>>
    /\ UNCHANGED <<input, main, errSlot, Triples, writeLock, schemaDefinition, lastid, wg>>

PredicateNodeGet(u) ==
    /\ units[u].pc = "l169get"
    /\ lastid' = units[u].tmp + 1
    /\ SetUnit(u, [units[u] EXCEPT !.pc = "l170",
                                   !.predicateNode = BlankOf(units[u].tmp + 1)])
    /\ nodeOf' = MapPut(nodeOf, u \o <<units[u].i>>, BlankOf(units[u].tmp + 1))
    /\ UNCHANGED <<fileReader, frames, rootRead>>
    /\ UNCHANGED <<input, main, errSlot, Triples, writeLock, schemaDefinition, wg>>

\* line 170: *errp = newErr (nodeFromTag returns no error)
PredicateErrSet(u) ==
    /\ units[u].pc = "l170"
    /\ errSlot' = [errSlot EXCEPT ![units[u].errp] = Nil]
    /\ SetUnit(u, [units[u] EXCEPT !.pc = "l171"])
    /\ UNCHANGED <<fileReader, frames, rootRead>>
    /\ UNCHANGED <<input, main, Triples, writeLock, schemaDefinition, lastid, wg, nodeOf>>

\* lines 171-173
PredicateErrCheck(u) ==
    /\ units[u].pc = "l171"
    /\ SetUnit(u, CheckErr(u, [units[u] EXCEPT !.pc = "l174"]))
    /\ UNCHANGED <<fileReader, frames, rootRead>>
    /\ UNCHANGED <<input, main, errSlot, Triples, writeLock, schemaDefinition,
                   lastid, wg, nodeOf>>

\* lines 174-175 with a write of the "" entry of the namespace table by the unit
TypeURIStoring(u) ==
    /\ units[u].pc = "l174"
    /\ LET r == uriFromPair(schemaDefinition, currBlock(u).OpeningTag.SchemaName,
                            currBlock(u).OpeningTag.Name)
       IN /\ errSlot' = [errSlot EXCEPT ![units[u].errp] = r.err]
          /\ SetUnit(u, [units[u] EXCEPT !.pc = "l176", !.openingTagUri = r.uri,
                                         !.erred = @ \/ r.err # Nil,
                                         !.typeResolved = @ + 1])
    /\ schemaDefinition' = MapPut(schemaDefinition, "", ZeroURI)
    /\ UNCHANGED <<fileReader, frames, rootRead>>
    /\ UNCHANGED <<input, main, Triples, writeLock, lastid, wg, nodeOf>>

\* lines 174-175: openingTagUri, newErr := parser.uriFromPair(...); *errp = newErr
TypeURI(u) ==
    /\ units[u].pc = "l174"
    /\ LET r == uriFromPair(schemaDefinition, currBlock(u).OpeningTag.SchemaName,
                            currBlock(u).OpeningTag.Name)
       IN /\ errSlot' = [errSlot EXCEPT ![units[u].errp] = r.err]
          /\ SetUnit(u, [units[u] EXCEPT !.pc = "l176", !.openingTagUri = r.uri,
                                         !.erred = @ \/ r.err # Nil,
                                         !.typeResolved = @ + 1])
    /\ UNCHANGED <<fileReader, frames, rootRead>>
    /\ UNCHANGED <<input, main, Triples, writeLock, schemaDefinition, lastid, wg, nodeOf>>

\* lines 176-178 with the rdf:type triple appended in the first iteration only
TypeErrCheckOnce(u) ==
    /\ units[u].pc = "l176"
    /\ SetUnit(u, CheckErr(u, [units[u] EXCEPT
                                  !.pc = IF units[u].i = 1 THEN "l180" ELSE "l185"]))
    /\ UNCHANGED <<fileReader, frames, rootRead>>
    /\ UNCHANGED <<input, main, errSlot, Triples, writeLock, schemaDefinition,
                   lastid, wg, nodeOf>>

\* lines 176-178
TypeErrCheck(u) ==
    /\ units[u].pc = "l176"
    /\ SetUnit(u, CheckErr(u, [units[u] EXCEPT !.pc = "l180"]))
    /\ UNCHANGED <<fileReader, frames, rootRead>>
    /\ UNCHANGED <<input, main, errSlot, Triples, writeLock, schemaDefinition,
                   lastid, wg, nodeOf>>

\* appendTriple without the wait for the lock
LockUnguarded(u, at, next) ==
    /\ units[u].pc = at
    /\ writeLock' = u
    /\ SetUnit(u, [units[u] EXCEPT !.pc = next])
    /\ UNCHANGED <<fileReader, frames, rootRead>>
    /\ UNCHANGED <<input, main, errSlot, Triples, schemaDefinition, lastid, wg, nodeOf>>

\* appendTriple, line 63: parser.writeLock.Lock()
Lock(u, at, next) ==
    /\ units[u].pc = at
    /\ writeLock = Free
    /\ writeLock' = u
    /\ SetUnit(u, [units[u] EXCEPT !.pc = next])
    /\ UNCHANGED <<fileReader, frames, rootRead>>
    /\ UNCHANGED <<input, main, errSlot, Triples, schemaDefinition, lastid, wg, nodeOf>>

\* appendTriple, lines 64-65: the write of the map and parser.writeLock.Unlock()
Write(u, at, triple, rec) ==
    /\ units[u].pc = at
    /\ Triples' = appendTriple(Triples, u, triple)
    /\ writeLock' = Free
    /\ SetUnit(u, [rec EXCEPT !.emitted = @ + 1])
    /\ UNCHANGED <<fileReader, frames, rootRead>>
    /\ UNCHANGED <<input, main, errSlot, schemaDefinition, lastid, wg, nodeOf>>

\* lines 179-184: the rdf:type triple of currBlock
TypeTriple(u) ==
    Triple(units[u].node,
           Node(IRI, URIString(AddFragment(rdfNS, "type"))),
           Node(IRI, URIString(units[u].openingTagUri)))

TypeLock(u) == Lock(u, "l180", "l180w")
TypeWrite(u) ==
    Write(u, "l180w", TypeTriple(u),
          [units[u] EXCEPT !.pc = "l185", !.typeAttempts = @ + 1])

\* lines 185-188
TypeWrittenCheck(u) ==
    /\ units[u].pc = "l185"
    /\ SetUnit(u, CheckErr(u,
            IF Len(predicateBlock(u).Children) = 0
            THEN [units[u] EXCEPT !.pc = "l191"]
            ELSE [units[u] EXCEPT !.pc = "l214", !.j = 1]))
    /\ UNCHANGED <<fileReader, frames, rootRead>>
    /\ UNCHANGED <<input, main, errSlot, Triples, writeLock, schemaDefinition,
                   lastid, wg, nodeOf>>

\* lines 190-201: the object string of a predicate block without children
ObjectString(sd, block) ==
    LET r == getRDFAttributeIndex(sd, block.OpeningTag, "resource")
    IN [objectString |-> IF r.index # -1
                         THEN block.OpeningTag.Attrs[r.index + 1].Value
                         ELSE block.Value,
        err |-> r.err]

\* lines 191-192: resIdx, newErr := getRDFAttributeIndex(...); *errp = newErr
ResourceIndex(u) ==
    /\ units[u].pc = "l191"
    /\ LET r == ObjectString(schemaDefinition, predicateBlock(u))
       IN /\ errSlot' = [errSlot EXCEPT ![units[u].errp] = r.err]
          /\ SetUnit(u, [units[u] EXCEPT !.pc = "l193", !.objectString = r.objectString])
    /\ UNCHANGED <<fileReader, frames, rootRead>>
    /\ UNCHANGED <<input, main, Triples, writeLock, schemaDefinition, lastid, wg, nodeOf>>

\* lines 193-195
ResourceErrCheck(u) ==
    /\ units[u].pc = "l193"
    /\ SetUnit(u, CheckErr(u, [units[u] EXCEPT !.pc = "l205"]))
    /\ UNCHANGED <<fileReader, frames, rootRead>>
    /\ UNCHANGED <<input, main, errSlot, Triples, writeLock, schemaDefinition,
                   lastid, wg, nodeOf>>

\* lines 205-209: (node, predicateNode, Literal objectString)
LiteralTriple(u) ==
    Triple(units[u].node, units[u].predicateNode,
           Node(LITERAL, Str(units[u].objectString)))

LiteralLock(u) == Lock(u, "l205", "l205w")
LiteralWrite(u) == Write(u, "l205w", LiteralTriple(u), NextPredicate(u, units[u]))

\* line 214: objectNode, newErr := parser.nodeFromTag(objectBlock.OpeningTag)
ObjectNode(u) ==
    /\ units[u].pc = "l214"
    /\ LET r == nodeFromTag(schemaDefinition, objectBlock(u).OpeningTag)
       IN IF r.fresh
          THEN /\ SetUnit(u, [units[u] EXCEPT !.pc = "l214get", !.tmp = lastid])
               /\ UNCHANGED nodeOf
          ELSE /\ SetUnit(u, [units[u] EXCEPT !.pc = "l215", !.objectNode = r.node])
               /\ nodeOf' = MapPut(nodeOf, u \o <<units[u].i, units[u].j>>, r.node)
    /\ UNCHANGED <<fileReader, frames, rootRead>>
    /\ UNCHANGED <<input, main, errSlot, Triples, writeLock, schemaDefinition, lastid, wg>>

ObjectNodeGet(u) ==
    /\ units[u].pc = "l214get"
    /\ lastid' = units[u].tmp + 1
    /\ SetUnit(u, [units[u] EXCEPT !.pc = "l215",
                                   !.objectNode = BlankOf(units[u].tmp + 1)])
    /\ nodeOf' = MapPut(nodeOf, u \o <<units[u].i, units[u].j>>, BlankOf(units[u].tmp + 1))
    /\ UNCHANGED <<fileReader, frames, rootRead>>
    /\ UNCHANGED <<input, main, errSlot, Triples, writeLock, schemaDefinition, wg>>

\* line 215: *errp = newErr
ObjectErrSet(u) ==
    /\ units[u].pc = "l215"
    /\ errSlot' = [errSlot EXCEPT ![units[u].errp] = Nil]
    /\ SetUnit(u, [units[u] EXCEPT !.pc = "l216"])
    /\ UNCHANGED <<fileReader, frames, rootRead>>
    /\ UNCHANGED <<input, main, Triples, writeLock, schemaDefinition, lastid, wg, nodeOf>>

\* lines 216-218
ObjectErrCheck(u) ==
    /\ units[u].pc = "l216"
    /\ SetUnit(u, CheckErr(u, [units[u] EXCEPT !.pc = "l220"]))
    /\ UNCHANGED <<fileReader, frames, rootRead>>
    /\ UNCHANGED <<input, main, errSlot, Triples, writeLock, schemaDefinition,
                   lastid, wg, nodeOf>>

\* lines 220-224: (node, predicateNode, objectNode)
ObjectTriple(u) == Triple(units[u].node, units[u].predicateNode, units[u].objectNode)

ObjectLock(u) == Lock(u, "l220", "l220w")
ObjectWrite(u) == Write(u, "l220w", ObjectTriple(u), [units[u] EXCEPT !.pc = "l225"])

\* line 225: parser.wg.Add(1)
ObjectAdd(u) ==
    /\ units[u].pc = "l225"
    /\ wg' = wg + 1
    /\ SetUnit(u, [units[u] EXCEPT !.pc = "l226"])
    /\ UNCHANGED <<fileReader, frames, rootRead>>
    /\ UNCHANGED <<input, main, errSlot, Triples, writeLock, schemaDefinition,
                   lastid, nodeOf>>

\* line 226: go parser.parseBlock(objectBlock, objectNode, errp)
ObjectGo(u) ==
    /\ units[u].pc = "l226"
    /\ LET o == u \o <<units[u].i, units[u].j>>
       IN units' = MapPut([units EXCEPT ![u].pc = "l227"], o,
                          NewUnit(o, units[u].objectNode, units[u].errp))
    /\ UNCHANGED <<fileReader, frames, rootRead>>
    /\ UNCHANGED <<input, main, errSlot, Triples, writeLock, schemaDefinition,
                   lastid, wg, nodeOf>>

\* lines 227-229
ObjectGoneCheck(u) ==
    /\ units[u].pc = "l227"
    /\ SetUnit(u, CheckErr(u, NextObject(u, units[u])))
    /\ UNCHANGED <<fileReader, frames, rootRead>>
    /\ UNCHANGED <<input, main, errSlot, Triples, writeLock, schemaDefinition,
                   lastid, wg, nodeOf>>

\* line 232: parser.wg.Done()
Done(u) ==
    /\ units[u].pc = "l232"
    /\ wg' = wg - 1
    /\ SetUnit(u, [units[u] EXCEPT !.pc = "done"])
    /\ UNCHANGED <<fileReader, frames, rootRead>>
    /\ UNCHANGED <<input, main, errSlot, Triples, writeLock, schemaDefinition,
                   lastid, nodeOf>>

Next ==
    \/ ParseRead
    \/ ParseHeader
    \/ ParseAdd
    \/ ParseNode
    \/ ParseNodeGet
    \/ ParseGo
    \/ ParseCheck
    \/ ParseReturnErr
    \/ ParseWait
    \/ \E u \in DOMAIN units : PredicateNode(u)
    \/ \E u \in DOMAIN units : PredicateNodeGet(u)
    \/ \E u \in DOMAIN units : PredicateErrSet(u)
    \/ \E u \in DOMAIN units : PredicateErrCheck(u)
    \/ \E u \in DOMAIN units : TypeURI(u)
    \/ \E u \in DOMAIN units : TypeErrCheck(u)
    \/ \E u \in DOMAIN units : TypeLock(u)
    \/ \E u \in DOMAIN units : TypeWrite(u)
    \/ \E u \in DOMAIN units : TypeWrittenCheck(u)
    \/ \E u \in DOMAIN units : ResourceIndex(u)
    \/ \E u \in DOMAIN units : ResourceErrCheck(u)
    \/ \E u \in DOMAIN units : LiteralLock(u)
    \/ \E u \in DOMAIN units : LiteralWrite(u)
    \/ \E u \in DOMAIN units : ObjectNode(u)
    \/ \E u \in DOMAIN units : ObjectNodeGet(u)
    \/ \E u \in DOMAIN units : ObjectErrSet(u)
    \/ \E u \in DOMAIN units : ObjectErrCheck(u)
    \/ \E u \in DOMAIN units : ObjectLock(u)
    \/ \E u \in DOMAIN units : ObjectWrite(u)
    \/ \E u \in DOMAIN units : ObjectAdd(u)
    \/ \E u \in DOMAIN units : ObjectGo(u)
    \/ \E u \in DOMAIN units : ObjectGoneCheck(u)
    \/ \E u \in DOMAIN units : Done(u)

Spec == Init /\ [][Next]_vars


(***************************************************************************)
(* XMLReader.  The stream is a sequence of runes (one-character strings)   *)
(* and the number of runes consumed; every operation returns the new       *)
(* position next to its results.  Strings made of runes are sequences.     *)
(***************************************************************************)
EOF == "EOF"
ErrColon == "expected a word after colon"
ErrAssign == "expected an assignment sign (=)"
ErrQuote == "assignment operator must be followed by an attribute enclosed within quotes"
ErrBlank == "unexpected blank char. expected a closing quote"
ErrStrayEOF == "found stray characters at EOF"
ErrExtra == "found extra chars before tag start"
ErrUnexpectedClosing == "unexpected closing tag"
ErrPrologEnd == "expected a > char after ?"
ErrSlash == "expected closing angular bracket after /"
ErrClosing == "expected a closing tag"
ErrGT == "expected a > char"
ErrMismatch == "opening and closing tags doesn't match"

\* the rune ReadRune returns with an error
NoRune == "NUL"
WHITESPACE == {" ", "\t", "\n", "\r"}
\* the runes of the model below code point 64: 1 << uint(r) is a bit of the
\* 64-bit delimiter mask for these alone
LowRunes ==
    WHITESPACE \cup {NoRune, "\"", "'", "+", "/", ":", "<", "=", ">", "?", "1"}
Bit(r) == IF r \in LowRunes THEN {r} ELSE {}

readARune(inp, pos) ==
    IF pos >= Len(inp) THEN [r |-> NoRune, err |-> EOF, pos |-> pos]
    ELSE [r |-> inp[pos + 1], err |-> Nil, pos |-> pos + 1]

peekARune(inp, pos) ==
    IF pos >= Len(inp) THEN [r |-> NoRune, err |-> EOF, pos |-> pos]
    ELSE [r |-> inp[pos + 1], err |-> Nil, pos |-> pos]

readNBytes(inp, pos, n) ==
    IF pos + n > Len(inp)
    THEN [bytes |-> SubSeq(inp, pos + 1, Len(inp)), err |-> EOF, pos |-> Len(inp)]
    ELSE [bytes |-> SubSeq(inp, pos + 1, pos + n), err |-> Nil, pos |-> pos + n]

peekNBytes(inp, pos, n) ==
    IF pos + n > Len(inp)
    THEN [bytes |-> SubSeq(inp, pos + 1, Len(inp)), err |-> EOF, pos |-> pos]
    ELSE [bytes |-> SubSeq(inp, pos + 1, pos + n), err |-> Nil, pos |-> pos]

RECURSIVE readTill(_, _, _)
readTill(inp, pos, delim) ==
    IF pos >= Len(inp) THEN [word |-> <<>>, err |-> EOF, pos |-> pos]
    ELSE IF inp[pos + 1] \in delim THEN [word |-> <<>>, err |-> Nil, pos |-> pos]
    ELSE LET r == readTill(inp, pos + 1, delim)
         IN [r EXCEPT !.word = <<inp[pos + 1]>> \o r.word]

RECURSIVE ignoreWhiteSpace(_, _)
ignoreWhiteSpace(inp, pos) ==
    IF pos >= Len(inp) THEN [err |-> EOF, pos |-> pos]
    ELSE IF inp[pos + 1] \in WHITESPACE THEN ignoreWhiteSpace(inp, pos + 1)
    ELSE [err |-> Nil, pos |-> pos]

\* the loop of readColonPair: the index (from 0) of the first ':' of word, or -1
RECURSIVE colonIndex(_, _)
colonIndex(word, i) ==
    IF i >= Len(word) THEN -1
    ELSE IF word[i + 1] = ":" THEN i
    ELSE colonIndex(word, i + 1)

readColonPair(inp, pos, delim) ==
    LET w == readTill(inp, pos, delim)
        i == colonIndex(w.word, 0)
        latter == SubSeq(w.word, i + 2, Len(w.word))
    IN  IF w.err # Nil
        THEN [first |-> <<>>, second |-> <<>>, colonFound |-> FALSE, err |-> w.err, pos |-> w.pos]
        ELSE IF i = -1
        THEN [first |-> w.word, second |-> <<>>, colonFound |-> FALSE, err |-> Nil, pos |-> w.pos]
        ELSE IF Len(latter) = 0
        THEN [first |-> SubSeq(w.word, 1, i), second |-> <<>>, colonFound |-> TRUE,
              err |-> ErrColon, pos |-> w.pos]
        ELSE [first |-> SubSeq(w.word, 1, i), second |-> latter, colonFound |-> TRUE,
              err |-> Nil, pos |-> w.pos]

\* Tag and Attribute from a colon pair
PairNames(cp) ==
    IF cp.colonFound THEN [SchemaName |-> cp.first, Name |-> cp.second]
    ELSE [SchemaName |-> <<>>, Name |-> cp.first]
ZeroAttribute == Attribute(<<>>, <<>>, <<>>)
ZeroTag == Tag(<<>>, <<>>, <<>>)
ZeroBlock == Block(ZeroTag, <<>>, <<>>)

readClosingTag(inp, pos) ==
    LET next2Bytes == readNBytes(inp, pos, 2)
        cp == readColonPair(inp, next2Bytes.pos, Bit(">") \cup WHITESPACE)
        closingTag == Tag(PairNames(cp).SchemaName, PairNames(cp).Name, <<>>)
        ws == ignoreWhiteSpace(inp, cp.pos)
        nextChar == readARune(inp, ws.pos)
    IN  IF next2Bytes.err # Nil
        THEN [closingTag |-> ZeroTag, err |-> next2Bytes.err, pos |-> next2Bytes.pos]
        ELSE IF next2Bytes.bytes # <<"<", "/">>
        THEN [closingTag |-> ZeroTag, err |-> ErrClosing, pos |-> next2Bytes.pos]
        ELSE IF cp.err # Nil THEN [closingTag |-> ZeroTag, err |-> cp.err, pos |-> cp.pos]
        ELSE IF nextChar.err # Nil
        THEN [closingTag |-> closingTag, err |-> nextChar.err, pos |-> nextChar.pos]
        ELSE IF nextChar.r # ">"
        THEN [closingTag |-> closingTag, err |-> ErrGT, pos |-> nextChar.pos]
        ELSE [closingTag |-> closingTag, err |-> Nil, pos |-> nextChar.pos]

\* line 364 with the comparison of the names alone
TagsDifferByName(openingTag, closingTag) ==
    openingTag.Name # closingTag.Name
\* line 364: the opening and the closing tag are not the same
TagsDiffer(openingTag, closingTag) ==
    openingTag.Name # closingTag.Name \/ openingTag.SchemaName # closingTag.SchemaName

(***************************************************************************)
(* One XMLReader on one stream, and one call of Read on it.  frames is the *)
(* stack of the calls of readBlock, the innermost last; a call is at line  *)
(* pc, and one that waits for a child is at the line after the call.       *)
(***************************************************************************)
\* the pieces the streams are made of
Tokens ==
    {<<"<", "a", ">">>, <<"<", "p", ":", "a", ">">>, <<"<", "p", ":", "b", ">">>,
     <<"<", "/", "a", ">">>, <<"<", "/", "p", ":", "a", ">">>,
     <<"<", "/", "p", ":", "b", ">">>,
     <<"<", "a", "/", ">">>,
     <<"<", "a", " ", "x", "=", "'", "1", "'", ">">>,
     <<"<", "?", "x", "?", ">">>,
     <<"v">>}

RECURSIVE Flatten(_)
Flatten(ts) == IF ts = <<>> THEN <<>> ELSE Head(ts) \o Flatten(Tail(ts))

\* opening tags and prologs that are not well formed: no name, another rune
\* for '=', another rune for the quotes, a blank before the closing quote, a
\* prolog that does not end in "?>", and one that goes on as a tag that fails
OddTokens ==
    {<<"<", ">">>,
     <<"<", "a", " ", "x", " ", "+", "'", "1", "'", ">">>,
     <<"<", "a", " ", "x", "=", "1", "v", "1", ">">>,
     <<"<", "a", " ", "x", "=", "+", "1", "+", ">">>,
     <<"<", "a", " ", "x", "=", "'", "1", " ", "'", ">">>,
     <<"<", "?", "x", "?", "y", ">">>,
     <<"<", "?", "x", "?", "y", "/", "z">>}

\* what may follow one of them
TokensAfter == Tokens \cup {<<"<", "/", ">">>}

\* the streams of up to n tokens
Streams(n) == {Flatten(ts) : ts \in SeqsUpTo(Tokens, n)}

\* the streams with one of the odd tokens, at the start or after <a>, and up to
\* n tokens after it
OddStreams(n) ==
    {pre \o odd \o Flatten(ts) :
        pre \in {<<>>, <<"<", "a", ">">>}, odd \in OddTokens,
        ts \in SeqsUpTo(TokensAfter, n)}

\* err of rootRead while Read has not returned
Pending == "not read"
NotRead == [block |-> ZeroBlock, err |-> Pending, log |-> <<>>, prologs |-> <<>>]

\* history, in rootRead.prologs: readOpeningTag returned isProlog with err to a
\* call of readBlock, which read on; after is the rune it peeked behind the
\* second '?' and the blanks (line 158), NoRune when it did not get there
PrologSkipped(after, err) == [after |-> after, err |-> err]

\* history, in rootRead.log: a block was completed, by itself (<a/>) or by the
\* closing tag read for it
Completed(tag, selfClosing, closingTag) ==
    [tag |-> tag, selfClosing |-> selfClosing, closingTag |-> closingTag]

\* history, in the returned of a frame: readAttribute returned attr; assign
\* is the rune it read where '=' is expected, firstQuote the one it read where
\* the opening quote is, opening and closing the places (from 1) of the runes
\* before and after the value
AttributeReturned(attr, assign, firstQuote, opening, closing) ==
    [attr |-> attr, assign |-> assign, firstQuote |-> firstQuote,
     opening |-> opening, closing |-> closing]

\* a call of readBlock with the calls it makes of readOpeningTag and, from
\* there, of readAttribute: the line it is at and its variables.  tag,
\* isProlog, blockComplete and err are the results of readOpeningTag, attr
\* that of readAttribute, assign the rune it reads at line 62.  returned is
\* history: for every attribute readAttribute returned without an error, the
\* runes it read for '=' and for the quotes, and where the quotes are.
Frame(pc) ==
    [pc |-> pc, block |-> ZeroBlock, nextTwoBytes |-> <<>>,
     childBlock |-> ZeroBlock, childErr |-> Nil,
     tag |-> ZeroTag, isProlog |-> FALSE, blockComplete |-> FALSE, err |-> Nil,
     nextRune |-> NoRune, attr |-> ZeroAttribute, firstQuote |-> NoRune, word |-> <<>>,
     assign |-> NoRune, returned |-> <<>>, afterProlog |-> NoRune]
Top == frames[Len(frames)]
SetTop(f) == [frames EXCEPT ![Len(frames)] = f]
At(pc) == frames # <<>> /\ Top.pc = pc
inp == fileReader.inp
Consumed(pos) == [fileReader EXCEPT !.pos = pos]

\* XMLReaderFromFileObject on a stream; the parser is not used
InitRead ==
    /\ \/ \E s \in Streams(MaxTokens) : fileReader = [inp |-> s, pos |-> 0]
       \/ \E s \in OddStreams(MaxTokens - 2) : fileReader = [inp |-> s, pos |-> 0]
    /\ frames = <<>>
    /\ rootRead = NotRead
    /\ input = [openErr |-> ErrOpen, readErr |-> Nil,
                rootBlock |-> Block(Tag("", "", <<>>), "", <<>>)]
    /\ New

ParserIdle ==
    UNCHANGED <<input, main, units, errSlot, Triples, writeLock, schemaDefinition,
                lastid, wg, nodeOf>>

\* XMLReader.Read, line 372: the call of readBlock
Read ==
    /\ frames = <<>>
    /\ rootRead = NotRead
    /\ frames' = <<Frame("l105")>>
    /\ UNCHANGED <<fileReader, rootRead>>
    /\ ParserIdle

\* readOpeningTag returns tag, isProlog, blockComplete as they are, and err
OpeningReturns(err) == [Top EXCEPT !.pc = "l306", !.err = err]

\* readOpeningTag, lines 105-126: up to the opening bracket
openingTagStart ==
    /\ At("l105")
    /\ LET ws == ignoreWhiteSpace(inp, fileReader.pos)
           word == readTill(inp, ws.pos, Bit("<"))
       IN IF ws.err # Nil
          THEN /\ fileReader' = Consumed(ws.pos)
               /\ frames' = SetTop(OpeningReturns(ws.err))
          ELSE /\ fileReader' = Consumed(word.pos)
               /\ frames' = SetTop(
                    IF word.err = EOF
                    THEN IF Len(word.word) > 0 THEN OpeningReturns(ErrStrayEOF)
                         ELSE OpeningReturns(EOF)
                    ELSE IF Len(word.word) # 0 THEN OpeningReturns(ErrExtra)
                    ELSE [Top EXCEPT !.pc = "l129"])
    /\ UNCHANGED rootRead
    /\ ParserIdle

\* readOpeningTag, lines 129-142: the bracket and what follows it
openingTagKind ==
    /\ At("l129")
    /\ LET bracket == readARune(inp, fileReader.pos)
           ws == ignoreWhiteSpace(inp, bracket.pos)
           nextRune == peekARune(inp, ws.pos)
       IN /\ fileReader' = Consumed(ws.pos)
          /\ frames' = SetTop(
               IF nextRune.err # Nil THEN OpeningReturns(nextRune.err)
               ELSE IF nextRune.r = "/" THEN OpeningReturns(ErrUnexpectedClosing)
               ELSE IF nextRune.r = "?" THEN [Top EXCEPT !.pc = "l144", !.isProlog = TRUE]
               ELSE [Top EXCEPT !.pc = "l171"])
    /\ UNCHANGED rootRead
    /\ ParserIdle

\* readOpeningTag, lines 144-149: the prolog up to its second question mark
openingTagProlog ==
    /\ At("l144")
    /\ LET question == readARune(inp, fileReader.pos)
           skipped == readTill(inp, question.pos, Bit("?"))
       IN /\ fileReader' = Consumed(skipped.pos)
          /\ frames' = SetTop(IF skipped.err # Nil THEN OpeningReturns(skipped.err)
                              ELSE [Top EXCEPT !.pc = "l151"])
    /\ UNCHANGED rootRead
    /\ ParserIdle

\* readOpeningTag, lines 151-168: the end of the prolog.  The error of line
\* 167 is the if block's own err: the name of a tag is read next, isProlog set.
openingTagPrologEnd ==
    /\ At("l151")
    /\ LET closing == readARune(inp, fileReader.pos)
           ws == ignoreWhiteSpace(inp, closing.pos)
           nextRune == peekARune(inp, ws.pos)
       IN IF ws.err # Nil
          THEN /\ fileReader' = Consumed(ws.pos)
               /\ frames' = SetTop(OpeningReturns(ws.err))
          ELSE IF nextRune.err # Nil
          THEN /\ fileReader' = Consumed(ws.pos)
               /\ frames' = SetTop(OpeningReturns(nextRune.err))
          ELSE IF nextRune.r = ">"
          THEN /\ fileReader' = Consumed(ws.pos + 1)
               /\ frames' = SetTop([OpeningReturns(Nil) EXCEPT !.afterProlog = nextRune.r])
          ELSE /\ fileReader' = Consumed(ws.pos)
               /\ frames' = SetTop([Top EXCEPT !.pc = "l171", !.afterProlog = nextRune.r])
    /\ UNCHANGED rootRead
    /\ ParserIdle

\* readOpeningTag, lines 171-188: the name of the tag and the blanks after it
openingTagName ==
    /\ At("l171")
    /\ LET cp == readColonPair(inp, fileReader.pos, Bit(">") \cup WHITESPACE \cup Bit("/"))
           delim == peekARune(inp, cp.pos)
           ws == ignoreWhiteSpace(inp, cp.pos)
       IN IF cp.err # Nil
          THEN /\ fileReader' = Consumed(cp.pos)
               /\ frames' = SetTop(OpeningReturns(cp.err))
          ELSE /\ fileReader' = Consumed(IF delim.r \in WHITESPACE THEN ws.pos ELSE cp.pos)
               /\ frames' = SetTop([Top EXCEPT !.pc = "l189",
                                               !.tag.SchemaName = PairNames(cp).SchemaName,
                                               !.tag.Name = PairNames(cp).Name])
    /\ UNCHANGED rootRead
    /\ ParserIdle

\* readOpeningTag, lines 189-229: the end of a tag without attributes, or the
\* first look at its attributes.  word of line 226 is the empty word of line 114.
openingTagDelim ==
    /\ At("l189")
    /\ LET delim == peekARune(inp, fileReader.pos)
           afterSlash == readARune(inp, fileReader.pos + 1)
           ws == ignoreWhiteSpace(inp, fileReader.pos)
           nextRune == peekARune(inp, ws.pos)
       IN IF delim.r = ">"
          THEN /\ fileReader' = Consumed(fileReader.pos + 1)
               /\ frames' = SetTop(OpeningReturns(Nil))
          ELSE IF delim.r = "/"
          THEN /\ fileReader' = Consumed(afterSlash.pos)
               /\ frames' = SetTop(
                    [OpeningReturns(IF afterSlash.err # Nil THEN afterSlash.err
                                    ELSE IF afterSlash.r # ">" THEN ErrSlash
                                    ELSE Nil)
                       EXCEPT !.blockComplete = TRUE])
          ELSE IF ws.err # Nil
          THEN /\ fileReader' = Consumed(ws.pos)
               /\ frames' = SetTop(OpeningReturns(ws.err))
          ELSE IF nextRune.err # Nil
          THEN /\ fileReader' = Consumed(ws.pos)
               /\ frames' = SetTop(OpeningReturns(nextRune.err))
          ELSE IF nextRune.r = ">"
          THEN /\ fileReader' = Consumed(ws.pos + 1)
               /\ frames' = SetTop([OpeningReturns(Nil) EXCEPT !.tag.Name = <<>>])
          ELSE /\ fileReader' = Consumed(ws.pos)
               /\ frames' = SetTop([Top EXCEPT !.pc = "l233", !.nextRune = nextRune.r])
    /\ UNCHANGED rootRead
    /\ ParserIdle

\* readOpeningTag, lines 233-234, and readAttribute, lines 46-60: the name of
\* an attribute
attributeName ==
    /\ At("l233")
    /\ Top.nextRune \notin {">", "/"}
    /\ LET cp == readColonPair(inp, fileReader.pos, WHITESPACE \cup Bit("="))
           ws == ignoreWhiteSpace(inp, cp.pos)
           named == Attribute(PairNames(cp).SchemaName, PairNames(cp).Name, <<>>)
       IN IF cp.err # Nil
          THEN /\ fileReader' = Consumed(cp.pos)
               /\ frames' = SetTop(OpeningReturns(cp.err))
          ELSE /\ fileReader' = Consumed(ws.pos)
               /\ frames' = SetTop(
                    IF ws.err # Nil THEN [OpeningReturns(ws.err) EXCEPT !.attr = named]
                    ELSE [Top EXCEPT !.pc = "l62", !.attr = named])
    /\ UNCHANGED rootRead
    /\ ParserIdle

\* readAttribute, lines 62-79: the errors set at lines 67 and 72, and the one
\* of the read of line 70, are overwritten by the next := of err
attributeValue ==
    /\ At("l62")
    /\ LET nextRune == readARune(inp, fileReader.pos)
           firstQuote == readARune(inp, nextRune.pos)
           word == readTill(inp, firstQuote.pos, WHITESPACE \cup Bit(firstQuote.r))
       IN IF nextRune.err # Nil
          THEN /\ fileReader' = Consumed(nextRune.pos)
               /\ frames' = SetTop(OpeningReturns(nextRune.err))
          ELSE /\ fileReader' = Consumed(word.pos)
               /\ frames' = SetTop(
                    IF word.err # Nil THEN OpeningReturns(word.err)
                    ELSE [Top EXCEPT !.pc = "l81", !.firstQuote = firstQuote.r,
                                     !.word = word.word, !.assign = nextRune.r])
    /\ UNCHANGED rootRead
    /\ ParserIdle

\* readAttribute, lines 81-87, and readOpeningTag, lines 235-249: the closing
\* quote; the attribute is appended and the next rune peeked
attributeEnd ==
    /\ At("l81")
    /\ LET secondQuote == readARune(inp, fileReader.pos)
           attr == [Top.attr EXCEPT !.Value = Top.word]
           ws == ignoreWhiteSpace(inp, secondQuote.pos)
           nextRune == peekARune(inp, ws.pos)
           returned == Append(Top.returned,
                              AttributeReturned(attr, Top.assign, Top.firstQuote,
                                                fileReader.pos - Len(Top.word),
                                                fileReader.pos + 1))
       IN IF Top.firstQuote # secondQuote.r
          THEN /\ fileReader' = Consumed(secondQuote.pos)
               /\ frames' = SetTop(OpeningReturns(ErrBlank))
          ELSE /\ fileReader' = Consumed(ws.pos)
               /\ frames' = SetTop(
                    IF ws.err # Nil
                    THEN [OpeningReturns(ws.err) EXCEPT !.tag.Attrs = Append(@, attr),
                                                        !.returned = returned]
                    ELSE IF nextRune.err # Nil
                    THEN [OpeningReturns(nextRune.err) EXCEPT !.tag.Attrs = Append(@, attr),
                                                              !.returned = returned]
                    ELSE [Top EXCEPT !.pc = "l233", !.tag.Attrs = Append(@, attr),
                                     !.nextRune = nextRune.r, !.attr = ZeroAttribute,
                                     !.returned = returned])
    /\ UNCHANGED rootRead
    /\ ParserIdle

\* readOpeningTag, lines 233 and 251-266: the end of a tag with attributes.
\* The error of line 263 is the if block's own err; line 266 returns the outer.
openingTagEnd ==
    /\ At("l233")
    /\ Top.nextRune \in {">", "/"}
    /\ LET last == readARune(inp, fileReader.pos)
           afterLast == readARune(inp, last.pos)
       IN IF last.r = "/"
          THEN /\ fileReader' = Consumed(afterLast.pos)
               /\ frames' = SetTop(
                    [OpeningReturns(IF afterLast.err # Nil THEN afterLast.err ELSE Nil)
                       EXCEPT !.blockComplete = TRUE])
          ELSE /\ fileReader' = Consumed(last.pos)
               /\ frames' = SetTop(OpeningReturns(Nil))
    /\ UNCHANGED rootRead
    /\ ParserIdle

\* return block, err of the innermost call of readBlock: to the call that waits
\* for it, or to Read, which returns them (lines 372-376)
Return(block, err, log) ==
    IF Len(frames) = 1
    THEN /\ frames' = <<>>
         /\ rootRead' = [rootRead EXCEPT !.block = block, !.err = err, !.log = log]
    ELSE /\ frames' = [SubSeq(frames, 1, Len(frames) - 1) EXCEPT
                         ![Len(frames) - 1] = [@ EXCEPT !.childBlock = block,
                                                        !.childErr = err]]
         /\ rootRead' = [rootRead EXCEPT !.log = log]

\* readBlock, lines 305-317.  After a prolog the call returns what another
\* call of readBlock returns, whatever err is.
readBlockOpening ==
    /\ At("l306")
    /\ LET block == [ZeroBlock EXCEPT !.OpeningTag = Top.tag]
       IN IF Top.isProlog
          THEN /\ frames' = SetTop(Frame("l105"))
               /\ rootRead' = [rootRead EXCEPT
                                 !.prologs = Append(@, PrologSkipped(Top.afterProlog, Top.err))]
          ELSE IF Top.err # Nil THEN Return(ZeroBlock, Top.err, rootRead.log)
          ELSE IF Top.blockComplete
          THEN Return(block, Nil, Append(rootRead.log, Completed(Top.tag, TRUE, ZeroTag)))
          ELSE /\ frames' = SetTop([Top EXCEPT !.pc = "l319", !.block = block])
               /\ UNCHANGED rootRead
    /\ UNCHANGED fileReader
    /\ ParserIdle

\* readBlock, lines 319-341, with the loop over the children entered after a
\* text as well
readBlockBodyMixed ==
    /\ At("l319")
    /\ LET ws == ignoreWhiteSpace(inp, fileReader.pos)
           nextRune == peekARune(inp, ws.pos)
           word == readTill(inp, ws.pos, Bit("<"))
           nextTwoBytes == peekNBytes(inp, ws.pos, 2)
       IN IF nextRune.err # Nil
          THEN /\ fileReader' = Consumed(ws.pos)
               /\ Return(Top.block, nextRune.err, rootRead.log)
          ELSE IF nextRune.r # "<"
          THEN /\ fileReader' = Consumed(word.pos)
               /\ IF word.err # Nil THEN Return(Top.block, word.err, rootRead.log)
                  ELSE /\ frames' = SetTop([Top EXCEPT
                                             !.pc = "l343", !.block.Value = word.word,
                                             !.nextTwoBytes = peekNBytes(inp, word.pos, 2).bytes])
                       /\ UNCHANGED rootRead
          ELSE /\ fileReader' = Consumed(ws.pos)
               /\ IF nextTwoBytes.err # Nil
                  THEN Return(Top.block, nextTwoBytes.err, rootRead.log)
                  ELSE /\ frames' = SetTop([Top EXCEPT !.pc = "l343",
                                                       !.nextTwoBytes = nextTwoBytes.bytes])
                       /\ UNCHANGED rootRead
    /\ ParserIdle

\* readBlock, lines 319-341: the text of the block, or the first look at what
\* follows its opening tag
readBlockBody ==
    /\ At("l319")
    /\ LET ws == ignoreWhiteSpace(inp, fileReader.pos)
           nextRune == peekARune(inp, ws.pos)
           word == readTill(inp, ws.pos, Bit("<"))
           nextTwoBytes == peekNBytes(inp, ws.pos, 2)
       IN IF nextRune.err # Nil
          THEN /\ fileReader' = Consumed(ws.pos)
               /\ Return(Top.block, nextRune.err, rootRead.log)
          ELSE IF nextRune.r # "<"
          THEN /\ fileReader' = Consumed(word.pos)
               /\ IF word.err # Nil THEN Return(Top.block, word.err, rootRead.log)
                  ELSE /\ frames' = SetTop([Top EXCEPT !.pc = "l360", !.block.Value = word.word])
                       /\ UNCHANGED rootRead
          ELSE /\ fileReader' = Consumed(ws.pos)
               /\ IF nextTwoBytes.err # Nil
                  THEN Return(Top.block, nextTwoBytes.err, rootRead.log)
                  ELSE /\ frames' = SetTop([Top EXCEPT !.pc = "l343",
                                                       !.nextTwoBytes = nextTwoBytes.bytes])
                       /\ UNCHANGED rootRead
    /\ ParserIdle

\* readBlock, lines 343-345: while the two bytes are not "</", a child is read
readBlockChild ==
    /\ At("l343")
    /\ frames' = IF Top.nextTwoBytes = <<"<", "/">>
                 THEN SetTop([Top EXCEPT !.pc = "l360"])
                 ELSE Append(SetTop([Top EXCEPT !.pc = "l346"]), Frame("l105"))
    /\ UNCHANGED <<fileReader, rootRead>>
    /\ ParserIdle

\* readBlock, lines 346-356: the child is appended and the next two bytes peeked
readBlockAppend ==
    /\ At("l346")
    /\ LET appended == [Top.block EXCEPT !.Children = Append(@, Top.childBlock)]
           ws == ignoreWhiteSpace(inp, fileReader.pos)
           nextTwoBytes == peekNBytes(inp, ws.pos, 2)
       IN IF Top.childErr # Nil
          THEN /\ Return(Top.block, Top.childErr, rootRead.log)
               /\ UNCHANGED fileReader
          ELSE /\ fileReader' = Consumed(ws.pos)
               /\ IF nextTwoBytes.err # Nil
                  THEN Return(appended, nextTwoBytes.err, rootRead.log)
                  ELSE /\ frames' = SetTop([Top EXCEPT !.pc = "l343", !.block = appended,
                                                       !.nextTwoBytes = nextTwoBytes.bytes])
                       /\ UNCHANGED rootRead
    /\ ParserIdle

\* readBlock, lines 360-368
readBlockClosing ==
    /\ At("l360")
    /\ LET c == readClosingTag(inp, fileReader.pos)
           log == Append(rootRead.log, Completed(Top.block.OpeningTag, FALSE, c.closingTag))
       IN /\ fileReader' = Consumed(c.pos)
          /\ IF c.err # Nil THEN Return(Top.block, c.err, rootRead.log)
             ELSE IF TagsDiffer(Top.block.OpeningTag, c.closingTag)
             THEN Return(Top.block, ErrMismatch, log)
             ELSE Return(Top.block, Nil, log)
    /\ ParserIdle

NextRead ==
    \/ Read
    \/ openingTagStart
    \/ openingTagKind
    \/ openingTagProlog
    \/ openingTagPrologEnd
    \/ openingTagName
    \/ openingTagDelim
    \/ attributeName
    \/ attributeValue
    \/ attributeEnd
    \/ openingTagEnd
    \/ readBlockOpening
    \/ readBlockBody
    \/ readBlockChild
    \/ readBlockAppend
    \/ readBlockClosing

SpecRead == InitRead /\ [][NextRead]_vars

(***************************************************************************)
(* What the document says, read off the block tree without the parser's    *)
(* operators.                                                              *)
(***************************************************************************)
Range(f) == {f[x] : x \in DOMAIN f}

\* the units Parse and parseBlock have started
Started == DOMAIN units
Stopped(u) == units[u].pc \in {"done", "returned"}
\* the units that returned on an error, without wg.Done()
Failed == {u \in Started : units[u].pc = "returned"}
\* the units that got an error while walking their block
Erred == {u \in Started : units[u].erred}
RootChildren == 1..Len(rootBlock.Children)
TableInstalled ==
    /\ main.pc \notin {"l237", "l248"}
    /\ input.openErr = Nil /\ input.readErr = Nil
    /\ parseHeaderBlock(rootBlock).err = Nil
ReturnedNil == Returned /\ main.ret = Nil

\* the prefixes the root block declares (xmlns:prefix="uri")
Declared ==
    {rootBlock.OpeningTag.Attrs[i].Name :
        i \in {n \in 1..Len(rootBlock.OpeningTag.Attrs) :
                 rootBlock.OpeningTag.Attrs[n].SchemaName = "xmlns"}}
\* the prefixes the root block binds to the RDF namespace
RDFPrefixes ==
    {rootBlock.OpeningTag.Attrs[i].Name :
        i \in {n \in 1..Len(rootBlock.OpeningTag.Attrs) :
                 /\ rootBlock.OpeningTag.Attrs[n].SchemaName = "xmlns"
                 /\ rootBlock.OpeningTag.Attrs[n].Value = RDFNS}}

\* the positions (from 1) of the attributes rdf:name of a tag
RDFAttrs(tag, name) ==
    {n \in 1..Len(tag.Attrs) :
        tag.Attrs[n].SchemaName \in RDFPrefixes /\ tag.Attrs[n].Name = name}
Min(S) == CHOOSE x \in S : \A y \in S : x <= y
HasRDFAttr(tag, name) == RDFAttrs(tag, name) # {}
RDFAttrValue(tag, name) == tag.Attrs[Min(RDFAttrs(tag, name))].Value

\* the paths of the blocks below the root
RECURSIVE PathsBelow(_, _)
PathsBelow(b, path) ==
    UNION {{path \o <<c>>} \cup PathsBelow(b.Children[c], path \o <<c>>) :
                c \in 1..Len(b.Children)}
Paths == PathsBelow(rootBlock, <<>>)
TagAt(path) == BlockAt(rootBlock, path).OpeningTag

(***************************************************************************)
(* Claims.                                                                 *)
(***************************************************************************)

\* C1: when Parse has returned, with or without an error, no unit that was
\* started is still scheduled or running.
C1_ParseReturnsAfterUnits ==
    Returned => \A u \in Started : Stopped(u)

\* C2: once a unit has hit an error, Parse does not return nil, and when
\* nothing can run any more Parse has returned a non-nil error.
C2_FailureIsReported ==
    Erred # {} =>
        /\ ~ReturnedNil
        /\ ~ENABLED Next => Returned /\ main.ret # Nil

\* the units counted into the WaitGroup (started or about to be) and not stopped
Counted ==
    Cardinality({u \in Started : ~Stopped(u)})
    + Cardinality({u \in Started : units[u].pc = "l226"})
    + (IF main.pc \in {"l257", "l257get", "l261"} THEN 1 ELSE 0)

\* C3: Parse on a block tree that was read always returns: whenever it has not
\* returned yet, some goroutine can still take a step, and every unit that has
\* stopped has decremented the counter (wg is the number of units that were
\* counted and have not stopped).
C3_ParseTerminates ==
    /\ Returned \/ ENABLED Next
    /\ wg = Counted

\* C4: the triple set has set semantics: no two entries hold triples of equal
\* (Subject, Predicate, Object), and a subject whose unit has gone through
\* several predicate children has exactly one rdf:type entry.
C4_SetSemantics ==
    /\ \A h1, h2 \in DOMAIN Triples : Triples[h1] = Triples[h2] => h1 = h2
    /\ \A u \in Started :
        units[u].pc = "done" /\ Len(currBlock(u).Children) >= 2 =>
            Cardinality({h \in DOMAIN Triples : Triples[h] = TypeTriple(u)}) = 1

\* a unit has written the rdf:type triple of a subject for each of two
\* predicate children, and the triple is there
C4_Witness ==
    \E u \in Started :
        /\ units[u].pc = "done"
        /\ Len(currBlock(u).Children) >= 2
        /\ TypeTriple(u) \in Range(Triples)
        /\ Cardinality(DOMAIN Triples) = 3

Anonymous(tag) == ~HasRDFAttr(tag, "about") /\ ~HasRDFAttr(tag, "nodeID")

\* C5: two tags with the same rdf:nodeID get the same Blank node, and two tags
\* with neither rdf:about nor rdf:nodeID get distinct Blank nodes.
C5_BlankNodeIdentity ==
    \A p, q \in DOMAIN nodeOf :
        p # q =>
            /\ Anonymous(TagAt(p)) /\ Anonymous(TagAt(q)) =>
                /\ nodeOf[p].NodeType = BLANK
                /\ nodeOf[q].NodeType = BLANK
                /\ nodeOf[p] # nodeOf[q]
            /\ ( /\ ~HasRDFAttr(TagAt(p), "about") /\ HasRDFAttr(TagAt(p), "nodeID")
                 /\ ~HasRDFAttr(TagAt(q), "about") /\ HasRDFAttr(TagAt(q), "nodeID")
                 /\ RDFAttrValue(TagAt(p), "nodeID") = RDFAttrValue(TagAt(q), "nodeID") )
               => nodeOf[p] = nodeOf[q]

\* a root child with rdf:about, a declared tag prefix and leaf children only
LeafSubject(k) ==
    LET b == rootBlock.Children[k]
    IN /\ HasRDFAttr(b.OpeningTag, "about")
       /\ b.OpeningTag.SchemaName \in Declared
       /\ Len(b.Children) >= 1
       /\ \A c \in 1..Len(b.Children) : Len(b.Children[c].Children) = 0
SubjectIRI(k) == Node(IRI, Str(RDFAttrValue(rootBlock.Children[k].OpeningTag, "about")))
ExpectedObject(block) ==
    IF HasRDFAttr(block.OpeningTag, "resource")
    THEN RDFAttrValue(block.OpeningTag, "resource")
    ELSE block.Value
ExpectedTriples(k) ==
    LET b == rootBlock.Children[k]
    IN {Triple(SubjectIRI(k), Node(IRI, <<RDFNS, "type">>),
               Node(IRI, <<EXNS, b.OpeningTag.Name>>))}
       \cup {Triple(SubjectIRI(k), nodeOf[<<k, c>>],
                    Node(LITERAL, Str(ExpectedObject(b.Children[c])))) :
                c \in 1..Len(b.Children)}
\* C6: when Parse has returned nil, the triples whose subject is IRI S, for a
\* root child with rdf:about = S, a declared tag prefix and leaf children only
\* (at least one), are its rdf:type triple and one literal triple for each
\* child: the child's rdf:resource value if it has one, its text otherwise.
C6_LeafSubjectTriples ==
    ReturnedNil =>
        \A k \in RootChildren :
            LeafSubject(k) =>
                /\ \A c \in 1..Len(rootBlock.Children[k].Children) : <<k, c>> \in DOMAIN nodeOf
                /\ {t \in Range(Triples) : t.Subject = SubjectIRI(k)}
                   = UNION {ExpectedTriples(m) :
                              m \in {n \in RootChildren :
                                       LeafSubject(n) /\ SubjectIRI(n) = SubjectIRI(k)}}

\* C7: a tag with an rdf:about attribute at any position gets the node
\* IRI(value of the attribute), and the attribute lookup returns the first
\* attribute that resolves to the RDF name, "not found" (-1) only without one.
C7_AboutGivesIRI ==
    /\ \A p \in DOMAIN nodeOf :
        HasRDFAttr(TagAt(p), "about") =>
            nodeOf[p] = Node(IRI, Str(RDFAttrValue(TagAt(p), "about")))
    /\ TableInstalled =>
        \A p \in Paths : \A name \in {"about", "nodeID", "resource"} :
            getRDFAttributeIndex(schemaDefinition, TagAt(p), name).index
            = IF HasRDFAttr(TagAt(p), name) THEN Min(RDFAttrs(TagAt(p), name)) - 1 ELSE -1

\* C8: schemaDefinition always has an entry for the empty prefix, and once the
\* table of the root block is installed an attribute xmlns="uri" of the root
\* is recorded under it.
C8_EmptyPrefixEntry ==
    /\ "" \in DOMAIN schemaDefinition
    /\ TableInstalled =>
        \A n \in 1..Len(rootBlock.OpeningTag.Attrs) :
            LET a == rootBlock.OpeningTag.Attrs[n]
            IN a.SchemaName = "" /\ a.Name = "xmlns" =>
                schemaDefinition[""] = NewURIRef(a.Value).uri

\* the tag or one of its attributes carries a prefix the root does not declare
UndeclaredIn(tag) ==
    \/ tag.SchemaName \notin Declared \cup {""}
    \/ \E n \in 1..Len(tag.Attrs) : tag.Attrs[n].SchemaName \notin Declared \cup {""}
\* C9: Parse never returns nil for a document in which a tag or an attribute
\* below the root carries a prefix the root block does not declare.
C9_UndeclaredPrefixFails ==
    (\E p \in Paths : UndeclaredIn(TagAt(p))) => ~ReturnedNil

\* the opening tags of a block tree, every block after its children
RECURSIVE PostOrder(_)
RECURSIVE PostOrderAll(_)
PostOrderAll(blocks) ==
    IF blocks = <<>> THEN <<>> ELSE PostOrder(Head(blocks)) \o PostOrderAll(Tail(blocks))
PostOrder(block) == Append(PostOrderAll(block.Children), block.OpeningTag)

\* the blocks Read completed, in the order it completed them
Completions == rootRead.log
ClosedByTag(c) == ~c.selfClosing
SameNames(c) ==
    /\ c.closingTag.SchemaName = c.tag.SchemaName
    /\ c.closingTag.Name = c.tag.Name
\* C10: when Read succeeds, the blocks it completed are the blocks of the tree
\* it returns, and each of them that did not complete itself (<a/>) was closed
\* by a closing tag with the SchemaName and the Name of its opening tag; when a
\* closing tag read for a block differs from the opening tag in either of the
\* two, at any depth, Read fails with the tag-mismatch error.
C10_BalancedTags ==
    rootRead.err # Pending =>
        /\ rootRead.err = Nil =>
              /\ [n \in 1..Len(Completions) |-> Completions[n].tag] = PostOrder(rootRead.block)
              /\ \A n \in 1..Len(Completions) :
                    ClosedByTag(Completions[n]) => SameNames(Completions[n])
        /\ (\E n \in 1..Len(Completions) :
                ClosedByTag(Completions[n]) /\ ~SameNames(Completions[n]))
              => rootRead.err = ErrMismatch
\* Read returned a tree with a prefixed block closed by its tag inside another one
C10_Witness ==
    /\ rootRead.err = Nil
    /\ Len(rootRead.block.Children) > 0
    /\ \E n \in 1..Len(Completions) :
          /\ n < Len(Completions)
          /\ ClosedByTag(Completions[n])
          /\ Completions[n].tag.SchemaName # <<>>
    /\ ClosedByTag(Completions[Len(Completions)])

\* C11: every tag of a block tree that Read returns without an error has a
\* non-empty Name (a stream such as <></> is rejected).
C11_TagNamesNonEmpty ==
    rootRead.err = Nil =>
        \A n \in 1..Len(PostOrder(rootRead.block)) : PostOrder(rootRead.block)[n].Name # <<>>

\* the attributes readAttribute has returned to the calls that are running
AttributesReturned ==
    UNION {Range(frames[n].returned) : n \in 1..Len(frames)}
\* C12: readAttribute returns an attribute only when the first rune after the
\* name and the blanks that follow it is '='.
C12_AssignmentRequired ==
    \A a \in AttributesReturned : a.assign = "="

\* C13: the Value of every attribute readAttribute returns is the runes between
\* an opening quote, ' or ", that follows '=' and the next occurrence of that
\* same quote.
C13_ValueBetweenQuotes ==
    \A a \in AttributesReturned :
        /\ a.firstQuote \in {"'", "\""}
        /\ inp[a.opening] = a.firstQuote
        /\ inp[a.closing] = a.firstQuote
        /\ a.attr.Value = SubSeq(inp, a.opening + 1, a.closing - 1)
        /\ a.firstQuote \notin Range(a.attr.Value)

\* C14: when Read returns without an error, every prolog that readBlock read
\* past ended in '?', blanks and '>', and readOpeningTag had no error for it.
C14_PrologEndChecked ==
    rootRead.err = Nil =>
        \A n \in 1..Len(rootRead.prologs) :
            /\ rootRead.prologs[n].after = ">"
            /\ rootRead.prologs[n].err = Nil

\* the blocks of a block tree
RECURSIVE BlocksOf(_)
RECURSIVE BlocksOfAll(_)
BlocksOfAll(blocks) ==
    IF blocks = <<>> THEN {} ELSE BlocksOf(Head(blocks)) \cup BlocksOfAll(Tail(blocks))
BlocksOf(block) == {block} \cup BlocksOfAll(block.Children)

\* C15: no block of a block tree that Read returns without an error has both a
\* non-empty Value and a child (a stream with a tag after the text of a block or
\* with text after a child is rejected).
C15_ValueOrChildren ==
    rootRead.err = Nil =>
        \A b \in BlocksOf(rootRead.block) : b.Value = <<>> \/ b.Children = <<>>
\* Read returned a tree with a block that has a text, closed right after it
C15_Witness ==
    /\ rootRead.err = Nil
    /\ \E b \in BlocksOf(rootRead.block) : b.Value # <<>> /\ b.Children = <<>>

\* the units between Lock and Unlock of appendTriple, and those waiting for the lock
Writing == {u \in DOMAIN units : units[u].pc \in {"l180w", "l205w", "l220w"}}
WaitingToWrite == {u \in DOMAIN units : units[u].pc \in {"l180", "l205", "l220"}}
\* C16: at most one unit is inside the write of parser.Triples, and it is the
\* one that holds the lock.
C16_WritesExclusive ==
    /\ Cardinality(Writing) <= 1
    /\ \A u \in Writing : writeLock = u
\* one unit is inside the write while another one has reached its own
C16_Witness ==
    /\ Writing # {}
    /\ WaitingToWrite # {}

\* the namespace table of the root block
RootTable == parseHeaderBlock(rootBlock).ns
\* C17: the namespace table changes once, at line 252 of Parse, from the table
\* of New() to the one of the root block's attributes, while no unit exists;
\* whenever a unit exists the table is the root block's.
C17_TableWrittenOnce ==
    /\ [](DOMAIN units # {} => schemaDefinition = RootTable)
    /\ [][schemaDefinition' # schemaDefinition =>
            /\ main.pc = "l248"
            /\ DOMAIN units = {}
            /\ schemaDefinition = NewSchemaDefinition
            /\ schemaDefinition' = RootTable]_vars
\* a unit has resolved its tag against the table of the root block
C17_Witness ==
    /\ schemaDefinition = RootTable
    /\ schemaDefinition # NewSchemaDefinition
    /\ \E u \in DOMAIN units : units[u].pc = "l176"

\* C18: until Parse returns, the error slot of a unit that has written an
\* error into it is not nil.
C18_ErrorSticks ==
    ~Returned => \A u \in Erred : errSlot[units[u].errp] # Nil

\* C19 as stated: a unit that has stopped, whose block has no children, has
\* never resolved the tag of its block and never called appendTriple, and a
\* unit that has stopped, whose block has n >= 1 children, has appended the
\* rdf:type triple n times, however it stopped.
C19_TypeForEveryChild ==
    \A u \in Started :
        Stopped(u) =>
            LET n == Len(currBlock(u).Children)
            IN /\ n = 0 => /\ units[u].typeResolved = 0
                           /\ units[u].emitted = 0
               /\ units[u].typeAttempts = n

\* C19, amended: the rdf:type triple of a block is appended inside the loop
\* over its children only: a unit whose block has no children never resolves
\* the tag of its block and never calls appendTriple, a unit never appends the
\* rdf:type triple more often than it has entered the loop, and a unit that
\* has left the loop after the last of n children (one that did not return on
\* an error) has appended it n times.
C19_TypeInsideLoop ==
    \A u \in Started :
        LET n == Len(currBlock(u).Children)
        IN /\ n = 0 => /\ units[u].typeResolved = 0
                       /\ units[u].typeAttempts = 0
                       /\ units[u].emitted = 0
           /\ units[u].typeAttempts <= units[u].typeResolved
           /\ units[u].typeResolved <= units[u].i
           /\ units[u].i <= IF n = 0 THEN 1 ELSE n
           /\ units[u].pc \in {"l232", "done"} => units[u].typeAttempts = n

\* a unit of a block with two children and a unit of a block with none have
\* both reached wg.Done()
C19_Witness ==
    /\ \E u \in Started : /\ Len(currBlock(u).Children) >= 2
                          /\ units[u].pc = "done"
                          /\ units[u].typeAttempts = Len(currBlock(u).Children)
    /\ \E v \in Started : /\ Len(currBlock(v).Children) = 0
                          /\ units[v].pc = "done"
                          /\ units[v].emitted = 0

====
